---- MODULE Spec2Model ----
(***************************************************************************)
(* Model of the sobriety tracker: the date-keyed daily log held by         *)
(* SobrietyTracker, the log_entry operation that writes it, and the        *)
(* aggregations computed from it (get_statistics, get_additional_stats,    *)
(* the spending totals of print_statistics, the calendar view's monthly    *)
(* figures, the summary of ExcelReport.generate).                          *)
(*                                                                         *)
(* A date key is a Python str, modelled as the sequence of its character   *)
(* codes, so that sorted() orders keys as Python orders strings and        *)
(* strptime() is a parser over characters.  Amounts are whole numbers      *)
(* (float rounding is not modelled).  The free-text fields of an entry     *)
(* (mood, notes, alcohol_type, alcohol_amount) are read by no aggregate    *)
(* and are left out of the records.                                        *)
(***************************************************************************)
EXTENDS Integers, Sequences, FiniteSets, TLC

VARIABLES file_log, daily_log, data_log, save_failures, op, ret

vars == <<file_log, daily_log, data_log, save_failures, op, ret>>

(***************************************************************************)
(* Bounds                                                                  *)
(***************************************************************************)
MaxInitEntries == 3
MaxLogSize == 2
MaxSaveFailures == 1

(***************************************************************************)
(* Characters and strings                                                  *)
(***************************************************************************)
SP == 32
DASH == 45
ZERO == 48

IsDigit(c) == c >= 48 /\ c <= 57

DigitVal(c) == c - ZERO

\* Python str comparison: code point by code point, a proper prefix is less.
RECURSIVE LexLess(_, _)
LexLess(s, t) ==
    IF s = << >> THEN t # << >>
    ELSE IF t = << >> THEN FALSE
    ELSE IF Head(s) # Head(t) THEN Head(s) < Head(t)
    ELSE LexLess(Tail(s), Tail(t))

\* sorted(keys): ascending by str comparison.
RECURSIVE Sorted(_)
Sorted(S) ==
    IF S = {} THEN << >>
    ELSE LET m == CHOOSE x \in S : \A y \in S \ {x} : LexLess(x, y)
         IN <<m>> \o Sorted(S \ {m})

\* reversed(seq)
RECURSIVE Reversed(_)
Reversed(s) ==
    IF s = << >> THEN << >> ELSE Reversed(Tail(s)) \o <<Head(s)>>

(***************************************************************************)
(* Calendar                                                                *)
(***************************************************************************)
IsLeap(y) == (y % 4 = 0 /\ y % 100 # 0) \/ y % 400 = 0

DaysInMonth(y, m) ==
    IF m = 2 THEN (IF IsLeap(y) THEN 29 ELSE 28)
    ELSE IF m \in {4, 6, 9, 11} THEN 30 ELSE 31

RECURSIVE DaysBeforeMonth(_, _)
DaysBeforeMonth(y, m) ==
    IF m = 1 THEN 0 ELSE DaysBeforeMonth(y, m - 1) + DaysInMonth(y, m - 1)

DaysBeforeYear(y) ==
    LET p == y - 1 IN p * 365 + (p \div 4) - (p \div 100) + (p \div 400)

\* date.toordinal(); (a - b).days is ToOrdinal(a) - ToOrdinal(b).
ToOrdinal(d) == DaysBeforeYear(d.year) + DaysBeforeMonth(d.year, d.month) + d.day

NoDate == [ok |-> FALSE, year |-> 0, month |-> 0, day |-> 0]

Date(y, m, d) == [ok |-> TRUE, year |-> y, month |-> m, day |-> d]

\* %m of strptime: 1[0-2] | 0[1-9] | [1-9]; 0 when the text does not match.
MonthField(t) ==
    IF Len(t) = 2 /\ t[1] = 49 /\ t[2] \in 48..50 THEN 10 + DigitVal(t[2])
    ELSE IF Len(t) = 2 /\ t[1] = 48 /\ t[2] \in 49..57 THEN DigitVal(t[2])
    ELSE IF Len(t) = 1 /\ t[1] \in 49..57 THEN DigitVal(t[1])
    ELSE 0

\* %d of strptime: 3[0-1] | [1-2]\d | 0[1-9] | [1-9] | " "[1-9].
DayField(t) ==
    IF Len(t) = 2 /\ t[1] = 51 /\ t[2] \in 48..49 THEN 30 + DigitVal(t[2])
    ELSE IF Len(t) = 2 /\ t[1] \in 49..50 /\ IsDigit(t[2])
        THEN 10 * DigitVal(t[1]) + DigitVal(t[2])
    ELSE IF Len(t) = 2 /\ t[1] = 48 /\ t[2] \in 49..57 THEN DigitVal(t[2])
    ELSE IF Len(t) = 1 /\ t[1] \in 49..57 THEN DigitVal(t[1])
    ELSE IF Len(t) = 2 /\ t[1] = SP /\ t[2] \in 49..57 THEN DigitVal(t[2])
    ELSE 0

\* datetime.strptime(s, "%Y-%m-%d"): four digits, "-", month, "-", day, the
\* whole string consumed, and the date must exist; ok = FALSE is ValueError.
Strptime(s) ==
    IF Len(s) < 8 \/ Len(s) > 10 THEN NoDate
    ELSE IF ~(\A i \in 1..4 : IsDigit(s[i])) \/ s[5] # DASH THEN NoDate
    ELSE LET mlen == IF s[7] = DASH THEN 1 ELSE 2
             y == 1000 * DigitVal(s[1]) + 100 * DigitVal(s[2])
                  + 10 * DigitVal(s[3]) + DigitVal(s[4])
         IN IF s[6 + mlen] # DASH \/ Len(s) < 7 + mlen \/ Len(s) > 8 + mlen
            THEN NoDate
            ELSE LET m == MonthField(SubSeq(s, 6, 5 + mlen))
                     d == DayField(SubSeq(s, 7 + mlen, Len(s)))
                 IN IF y < 1 \/ m = 0 \/ d = 0 THEN NoDate
                    ELSE IF d > DaysInMonth(y, m) THEN NoDate
                    ELSE Date(y, m, d)

Digits2(n) == <<ZERO + (n \div 10), ZERO + (n % 10)>>

Digits4(n) ==
    <<ZERO + (n \div 1000), ZERO + ((n \div 100) % 10),
      ZERO + ((n \div 10) % 10), ZERO + (n % 10)>>

\* strftime("%Y"), strftime("%Y-%m"), strftime("%Y-%m-%d")
StrfY(d) == Digits4(d.year)

StrfYm(d) == Digits4(d.year) \o <<DASH>> \o Digits2(d.month)

StrfYmd(d) == StrfYm(d) \o <<DASH>> \o Digits2(d.day)

(***************************************************************************)
(* Date keys and entry records                                             *)
(***************************************************************************)
\* "2023-12-31", "2024-01-01", "2024-01-02", "2024-02-01"
K_20231231 == <<50, 48, 50, 51, 45, 49, 50, 45, 51, 49>>

K_20240101 == <<50, 48, 50, 52, 45, 48, 49, 45, 48, 49>>

K_20240102 == <<50, 48, 50, 52, 45, 48, 49, 45, 48, 50>>

K_20240201 == <<50, 48, 50, 52, 45, 48, 50, 45, 48, 49>>

\* "2024-1-1": the same day as "2024-01-01", written without padding
K_2024_1_1 == <<50, 48, 50, 52, 45, 49, 45, 49>>

\* "2024-02-30": well formed, but no such day
K_20240230 == <<50, 48, 50, 52, 45, 48, 50, 45, 51, 48>>

\* "not-a-date"
K_notadate == <<110, 111, 116, 45, 97, 45, 100, 97, 116, 101>>

\* the keys a data file may hold
Keys ==
    {K_20231231, K_20240101, K_20240102, K_20240201, K_2024_1_1, K_notadate}

\* A JSON number and a JSON string that float() rejects.
Num(n) == [num |-> n]

Str == [str |-> "abc"]

\* Entries as log_entry writes them (main_menu passes 0.0 for a sober day).
WrittenRecords ==
    {[sober |-> TRUE, amount_spent |-> Num(0)],
     [sober |-> FALSE, amount_spent |-> Num(0)],
     [sober |-> FALSE, amount_spent |-> Num(15)],
     [sober |-> FALSE, amount_spent |-> Num(-20)]}

\* Entries a data file can hold besides: a text amount, and a record with
\* neither "sober" nor "amount_spent".
FileRecords ==
    WrittenRecords \cup
    {[sober |-> FALSE, amount_spent |-> Str], [mood |-> "ok"]}

\* The logs a data file can hold, up to MaxInitEntries entries.
FileLogs ==
    UNION {[D -> FileRecords] :
             D \in {E \in SUBSET Keys : Cardinality(E) <= MaxInitEntries}}

\* dict.get(key, default)
Get(record, key, default) ==
    IF key \in DOMAIN record THEN record[key] ELSE default

\* float(v) raises for a value that is not numeric.
FloatRaises(v) == "num" \notin DOMAIN v

Float(v) == v.num

\* wall-clock dates datetime.now() may return
NowDates == {Date(2024, 1, 2), Date(2024, 2, 1)}

\* (year, month) pairs a caller may ask the calendar for
CalendarRefs == {<<2023, 12>>, <<2024, 1>>, <<2024, 2>>, <<2024, 3>>}

DEFAULT_AMOUNT == 40

(***************************************************************************)
(* SobrietyTracker.get_statistics                                          *)
(***************************************************************************)
\* StatAmt without the substitution of the default for a zero amount
StatAmtKeepsZero(record) ==
    LET v == Get(record, "amount_spent", Num(DEFAULT_AMOUNT))
    IN IF FloatRaises(v) THEN DEFAULT_AMOUNT ELSE Float(v)

\* lines 81-86: the amount added to a month's "spent" for a drinking entry
StatAmt(record) ==
    LET v == Get(record, "amount_spent", Num(DEFAULT_AMOUNT))
        amt == IF FloatRaises(v) THEN DEFAULT_AMOUNT ELSE Float(v)
    IN IF amt = 0 THEN DEFAULT_AMOUNT ELSE amt

\* dict[key] = value, creating the key when absent
Put(f, k, v) == [x \in DOMAIN f \cup {k} |-> IF x = k THEN v ELSE f[x]]

\* StatStep counting a day in the yearly bucket only when it is sober
StatStepYearCountsSober(stats, date_str, record) ==
    LET date_obj == Strptime(date_str)
    IN IF ~date_obj.ok THEN stats
       ELSE
         LET month_key == StrfYm(date_obj)
             year_key == StrfY(date_obj)
             sober == Get(record, "sober", FALSE)
             m0 == IF month_key \in DOMAIN stats.monthly
                   THEN stats.monthly[month_key]
                   ELSE [sober_days |-> 0, total_days |-> 0, spent |-> 0]
             m1 == [sober_days |-> m0.sober_days + (IF sober THEN 1 ELSE 0),
                    total_days |-> m0.total_days + 1,
                    spent |-> m0.spent + (IF sober THEN 0 ELSE StatAmt(record))]
             y0 == IF year_key \in DOMAIN stats.yearly
                   THEN stats.yearly[year_key]
                   ELSE [sober_days |-> 0, total_days |-> 0]
             y1 == [sober_days |-> y0.sober_days + (IF sober THEN 1 ELSE 0),
                    total_days |-> y0.total_days + (IF sober THEN 1 ELSE 0)]
         IN [monthly |-> Put(stats.monthly, month_key, m1),
             yearly |-> Put(stats.yearly, year_key, y1)]

\* one iteration of the loop of get_statistics (lines 69-94)
StatStep(stats, date_str, record) ==
    LET date_obj == Strptime(date_str)
    IN IF ~date_obj.ok THEN stats
       ELSE
         LET month_key == StrfYm(date_obj)
             year_key == StrfY(date_obj)
             sober == Get(record, "sober", FALSE)
             m0 == IF month_key \in DOMAIN stats.monthly
                   THEN stats.monthly[month_key]
                   ELSE [sober_days |-> 0, total_days |-> 0, spent |-> 0]
             m1 == [sober_days |-> m0.sober_days + (IF sober THEN 1 ELSE 0),
                    total_days |-> m0.total_days + 1,
                    spent |-> m0.spent + (IF sober THEN 0 ELSE StatAmt(record))]
             y0 == IF year_key \in DOMAIN stats.yearly
                   THEN stats.yearly[year_key]
                   ELSE [sober_days |-> 0, total_days |-> 0]
             y1 == [sober_days |-> y0.sober_days + (IF sober THEN 1 ELSE 0),
                    total_days |-> y0.total_days + 1]
         IN [monthly |-> Put(stats.monthly, month_key, m1),
             yearly |-> Put(stats.yearly, year_key, y1)]

RECURSIVE StatLoop(_, _, _)
StatLoop(stats, log, todo) ==
    IF todo = {} THEN stats
    ELSE LET k == CHOOSE x \in todo : TRUE
         IN StatLoop(StatStep(stats, k, log[k]), log, todo \ {k})

EmptyStats == [monthly |-> << >>, yearly |-> << >>]

get_statistics(log) == StatLoop(EmptyStats, log, DOMAIN log)

(***************************************************************************)
(* SobrietyTracker.get_additional_stats                                    *)
(***************************************************************************)
\* sum(1 for d in daily_log if daily_log[d].get("sober", False))
SoberCount(log) ==
    Cardinality({k \in DOMAIN log : Get(log[k], "sober", FALSE)})

\* Percent reporting an empty log as fully sober
PercentEmptyIsFull(sober_days, total_days) ==
    IF total_days # 0 THEN (sober_days * 100) \div total_days ELSE 100

\* (sober_days / total_days * 100) if total_days else 0, in whole percent
Percent(sober_days, total_days) ==
    IF total_days # 0 THEN (sober_days * 100) \div total_days ELSE 0

Max(a, b) == IF a >= b THEN a ELSE b

\* the ascending walk (lines 111-127); previous_date = NoDate stands for None
RECURSIVE StreakLoop(_, _, _, _, _)
StreakLoop(log, dates, longest_streak, current_streak, previous_date) ==
    IF dates = << >> THEN longest_streak
    ELSE
      LET date_str == Head(dates)
          date_obj == Strptime(date_str)
      IN IF ~date_obj.ok
         THEN StreakLoop(log, Tail(dates), longest_streak, current_streak,
                         previous_date)
         ELSE IF Get(log[date_str], "sober", FALSE)
         THEN LET cs == IF previous_date.ok
                           /\ ToOrdinal(date_obj) - ToOrdinal(previous_date) = 1
                        THEN current_streak + 1 ELSE 1
              IN StreakLoop(log, Tail(dates), Max(longest_streak, cs), cs,
                            date_obj)
         ELSE StreakLoop(log, Tail(dates), longest_streak, 0, date_obj)

\* the descending walk (lines 130-135)
RECURSIVE CurrentSeqLoop(_, _, _)
CurrentSeqLoop(log, dates, current_seq) ==
    IF dates = << >> THEN current_seq
    ELSE IF Get(log[Head(dates)], "sober", FALSE)
    THEN CurrentSeqLoop(log, Tail(dates), current_seq + 1)
    ELSE current_seq

get_additional_stats(log) ==
    LET sorted_dates == Sorted(DOMAIN log)
        total_days == Len(sorted_dates)
        sober_days == SoberCount(log)
    IN [total_days |-> total_days,
        percent_sober |-> Percent(sober_days, total_days),
        longest_streak |-> StreakLoop(log, sorted_dates, 0, 0, NoDate),
        current_streak |-> CurrentSeqLoop(log, Reversed(sorted_dates), 0)]

(***************************************************************************)
(* Spending totals of SobrietyTracker.print_statistics                     *)
(***************************************************************************)
\* lines 185-190
SpendAmt(record) ==
    LET v == Get(record, "amount_spent", Num(DEFAULT_AMOUNT))
    IN IF FloatRaises(v) THEN DEFAULT_AMOUNT
       ELSE IF Float(v) = 0 THEN DEFAULT_AMOUNT ELSE Float(v)

\* lines 176-193; now is the value of datetime.now()
RECURSIVE SpendLoop(_, _, _, _)
SpendLoop(acc, log, todo, now) ==
    IF todo = {} THEN acc
    ELSE
      LET k == CHOOSE x \in todo : TRUE
          d == Strptime(k)
          counted == d.ok /\ ~Get(log[k], "sober", FALSE)
          amt == SpendAmt(log[k])
          inMonth == d.year = now.year /\ d.month = now.month
          acc1 == IF ~counted THEN acc
                  ELSE [overall_spending |-> acc.overall_spending + amt,
                        current_month_spending |->
                            acc.current_month_spending
                            + (IF inMonth THEN amt ELSE 0)]
      IN SpendLoop(acc1, log, todo \ {k}, now)

Spending(log, now) ==
    SpendLoop([overall_spending |-> 0, current_month_spending |-> 0],
              log, DOMAIN log, now)

(***************************************************************************)
(* Monthly figures of display_calendar                                     *)
(***************************************************************************)
CalendarDefault == 40

\* CalAmt without the substitution of the default for a zero amount
CalAmtKeepsZero(record) ==
    LET v == Get(record, "amount_spent", Num(CalendarDefault))
    IN IF FloatRaises(v) THEN CalendarDefault ELSE Float(v)

\* ui.py lines 59-64
CalAmt(record) ==
    LET v == Get(record, "amount_spent", Num(CalendarDefault))
        amt == IF FloatRaises(v) THEN CalendarDefault ELSE Float(v)
    IN IF amt = 0 THEN CalendarDefault ELSE amt

\* ui.py lines 46-65
RECURSIVE CalendarLoop(_, _, _, _, _)
CalendarLoop(acc, log, todo, year, month) ==
    IF todo = {} THEN acc
    ELSE
      LET k == CHOOSE x \in todo : TRUE
          d == Strptime(k)
          sober == Get(log[k], "sober", FALSE)
          acc1 == IF d.ok /\ d.year = year /\ d.month = month
                  THEN [total |-> acc.total + 1,
                        sober |-> acc.sober + (IF sober THEN 1 ELSE 0),
                        spent |-> acc.spent
                                  + (IF sober THEN 0 ELSE CalAmt(log[k]))]
                  ELSE acc
      IN CalendarLoop(acc1, log, todo \ {k}, year, month)

\* ui.py lines 66-71: the statistics line is printed only when total > 0
CalendarStats(log, year, month) ==
    LET acc == CalendarLoop([total |-> 0, sober |-> 0, spent |-> 0],
                            log, DOMAIN log, year, month)
    IN [total |-> acc.total, sober |-> acc.sober, spent |-> acc.spent,
        no_data |-> ~(acc.total > 0),
        percent |-> IF acc.total > 0
                    THEN (acc.sober * 100) \div acc.total ELSE 0]

(***************************************************************************)
(* ExcelReport.generate                                                    *)
(***************************************************************************)
\* report.py lines 77-93, the ascending walk of the summary
RECURSIVE ReportStreakLoop(_, _, _, _, _)
ReportStreakLoop(log, dates, longest_streak, current_streak, previous_date) ==
    IF dates = << >> THEN longest_streak
    ELSE
      LET date_str == Head(dates)
          date_obj == Strptime(date_str)
      IN IF ~date_obj.ok
         THEN ReportStreakLoop(log, Tail(dates), longest_streak,
                               current_streak, previous_date)
         ELSE IF Get(log[date_str], "sober", FALSE)
         THEN LET cs == IF previous_date.ok
                           /\ ToOrdinal(date_obj) - ToOrdinal(previous_date) = 1
                        THEN current_streak + 1 ELSE 1
              IN ReportStreakLoop(log, Tail(dates), Max(longest_streak, cs),
                                  cs, date_obj)
         ELSE ReportStreakLoop(log, Tail(dates), longest_streak, 0, date_obj)

\* report.py lines 95-100, the descending walk of the summary
RECURSIVE ReportSeqLoop(_, _, _)
ReportSeqLoop(log, dates, current_seq) ==
    IF dates = << >> THEN current_seq
    ELSE IF Get(log[Head(dates)], "sober", FALSE)
    THEN ReportSeqLoop(log, Tail(dates), current_seq + 1)
    ELSE current_seq

\* the records the generator of lines 102-107 visits
ReportCounted(log) == {k \in DOMAIN log : ~Get(log[k], "sober", FALSE)}

\* the condition of lines 103-105 calls float() only when "sober" is present
\* and false ("and" short-circuits); float() is inside no try of its own
ReportTermRaises(record) ==
    /\ ~Get(record, "sober", TRUE)
    /\ FloatRaises(Get(record, "amount_spent", Num(DEFAULT_AMOUNT)))

\* one term of the sum of lines 102-107
ReportTerm(record) ==
    LET v == Get(record, "amount_spent", Num(DEFAULT_AMOUNT))
    IN IF ~Get(record, "sober", TRUE) /\ Float(v) > 0
       THEN Float(v) ELSE DEFAULT_AMOUNT

RECURSIVE ReportSum(_, _)
ReportSum(log, todo) ==
    IF todo = {} THEN 0
    ELSE LET k == CHOOSE x \in todo : TRUE
         IN ReportTerm(log[k]) + ReportSum(log, todo \ {k})

NoReport ==
    [raised |-> FALSE, rows |-> << >>, total_days |-> 0, sober_days |-> 0,
     drinking_days |-> 0, percent_sober |-> 0, longest_streak |-> 0,
     current_streak |-> 0, overall_spending |-> 0]

\* generate (lines 26-167): the rows in sorted key order and the summary; an
\* exception anywhere leaves the try block before wb.save, so no report is
\* written and raised is TRUE.  A failing wb.save is not modelled.
generate(log) ==
    IF \E k \in ReportCounted(log) : ReportTermRaises(log[k])
    THEN [NoReport EXCEPT !.raised = TRUE]
    ELSE
      LET sorted_dates == Sorted(DOMAIN log)
          total_days == Cardinality(DOMAIN log)
          sober_days == SoberCount(log)
      IN [raised |-> FALSE,
          rows |-> sorted_dates,
          total_days |-> total_days,
          sober_days |-> sober_days,
          drinking_days |-> total_days - sober_days,
          percent_sober |-> IF total_days > 0
                            THEN (sober_days * 100) \div total_days ELSE 0,
          longest_streak |-> ReportStreakLoop(log, sorted_dates, 0, 0, NoDate),
          current_streak |-> ReportSeqLoop(log, Reversed(sorted_dates), 0),
          overall_spending |-> ReportSum(log, ReportCounted(log))]

(***************************************************************************)
(* State machine                                                           *)
(*   file_log   the daily_log of sober_data.json, as load_data() returns it*)
(*   daily_log  tracker.data["daily_log"]                                  *)
(*   data_log   the daily_log of main_menu's own data = load_data()        *)
(*   save_failures  how many save_data calls have failed so far            *)
(*   op, ret    the last operation and what it computed                    *)
(***************************************************************************)
NoAddStats ==
    [total_days |-> 0, percent_sober |-> 0, longest_streak |-> 0,
     current_streak |-> 0]

NoRet ==
    [stats |-> EmptyStats,
     add_stats |-> NoAddStats,
     spending |-> [overall_spending |-> 0, current_month_spending |-> 0],
     now |-> NoDate,
     cal |-> [total |-> 0, sober |-> 0, spent |-> 0, no_data |-> TRUE,
              percent |-> 0],
     ref |-> <<0, 0>>,
     report |-> NoReport,
     date_str |-> << >>]

\* main_menu lines 17-18: data = load_data(); tracker = SobrietyTracker()
Start(log) ==
    /\ file_log = log
    /\ daily_log = log
    /\ data_log = log
    /\ save_failures = 0
    /\ op = "start"
    /\ ret = NoRet

Init == \E log \in FileLogs : Start(log)

\* get_statistics reading "sober" with setdefault, which writes the default
\* into a record that lacks the field
GetStatisticsSetsDefault ==
    /\ op' = "get_statistics"
    /\ ret' = [NoRet EXCEPT !.stats = get_statistics(daily_log)]
    /\ daily_log' = [k \in DOMAIN daily_log |->
                         daily_log[k] @@ [sober |-> FALSE]]
    /\ UNCHANGED <<file_log, data_log, save_failures>>

GetStatistics ==
    /\ op' = "get_statistics"
    /\ ret' = [NoRet EXCEPT !.stats = get_statistics(daily_log)]
    /\ UNCHANGED <<file_log, daily_log, data_log, save_failures>>

GetAdditionalStats ==
    /\ op' = "get_additional_stats"
    /\ ret' = [NoRet EXCEPT !.add_stats = get_additional_stats(daily_log)]
    /\ UNCHANGED <<file_log, daily_log, data_log, save_failures>>

PrintStatistics ==
    \E now \in NowDates :
        /\ op' = "print_statistics"
        /\ ret' = [NoRet EXCEPT !.stats = get_statistics(daily_log),
                                !.add_stats = get_additional_stats(daily_log),
                                !.spending = Spending(daily_log, now),
                                !.now = now]
        /\ UNCHANGED <<file_log, daily_log, data_log, save_failures>>

\* display_calendar reads the log through load_data() (ui.py line 27)
DisplayCalendar ==
    \E ref \in CalendarRefs :
        /\ op' = "display_calendar"
        /\ ret' = [NoRet EXCEPT !.cal = CalendarStats(file_log, ref[1], ref[2]),
                                !.ref = ref]
        /\ UNCHANGED <<file_log, daily_log, data_log, save_failures>>

\* main_menu choice "3" (lines 107-112): ExcelReport(data).generate(...),
\* where data is the dictionary main_menu loaded at startup (line 17)
ExportReport ==
    /\ op' = "export_report"
    /\ ret' = [NoRet EXCEPT !.report = generate(data_log)]
    /\ UNCHANGED <<file_log, daily_log, data_log, save_failures>>

\* what the user may type at the date prompt; << >> is the empty string
DateInputs ==
    {<< >>, K_20240101, K_2024_1_1, K_20240230, K_notadate}

\* amounts main_menu passes on: 0.0 for a sober day, else the float typed
AmountInputs(sober) == IF sober THEN {0} ELSE {0, 15, -20}

\* save_data (data_manager.py lines 39-43) swallows every failure: the file
\* is written, or open() failed and it is untouched, or the write broke off
\* after open() truncated it and load_data() then yields an empty log.
SaveOutcomes == {"saved", "open_failed", "write_failed"}

save_data(old_file, log, outcome) ==
    IF outcome = "saved" THEN log
    ELSE IF outcome = "open_failed" THEN old_file
    ELSE << >>

\* log_entry storing the entry without validating its date
DateAcceptedAlways(date_str) == TRUE

\* lines 35-39: the entry is stored only when strptime accepts date_str
DateAccepted(date_str) == Strptime(date_str).ok

\* SobrietyTracker.log_entry; ret.date_str is the date_str it worked on
LogEntry ==
    \E typed \in DateInputs, sober \in BOOLEAN, outcome \in SaveOutcomes :
      \* datetime.now() is read only when date_str is empty (line 33)
      \E now \in (IF typed = << >> THEN NowDates ELSE {NoDate}),
         amount_spent \in AmountInputs(sober) :
        LET date_str == IF typed = << >> THEN StrfYmd(now) ELSE typed
            entry == [sober |-> sober, amount_spent |-> Num(amount_spent)]
        IN /\ op' = "log_entry"
           /\ ret' = [NoRet EXCEPT !.date_str = date_str]
           /\ IF ~DateAccepted(date_str)
              THEN UNCHANGED <<file_log, daily_log, data_log, save_failures>>
              ELSE /\ Cardinality(DOMAIN daily_log \cup {date_str}) <= MaxLogSize
                   /\ outcome # "saved" => save_failures < MaxSaveFailures
                   /\ daily_log' = Put(daily_log, date_str, entry)
                   /\ file_log' = save_data(file_log, daily_log', outcome)
                   /\ save_failures' =
                        save_failures + (IF outcome = "saved" THEN 0 ELSE 1)
                   /\ UNCHANGED data_log

Next ==
    \/ GetStatistics
    \/ GetAdditionalStats
    \/ PrintStatistics
    \/ DisplayCalendar
    \/ ExportReport

Spec == Init /\ [][Next]_vars

\* A session of main_menu on a fresh installation: no data file yet, so
\* load_data() returns the default structure with an empty daily_log.
InitSession == Start(<< >>)

NextSession ==
    \/ LogEntry
    \/ GetStatistics
    \/ GetAdditionalStats
    \/ PrintStatistics
    \/ DisplayCalendar
    \/ ExportReport

SpecSession == InitSession /\ [][NextSession]_vars

\* The same session with nothing but log_entry calls.
SpecLogging == InitSession /\ [][LogEntry]_vars

(***************************************************************************)
(* Vocabulary of the properties                                            *)
(***************************************************************************)
Sober(log, k) == Get(log[k], "sober", FALSE)

ValidKeys(log) == {k \in DOMAIN log : Strptime(k).ok}

Ord(k) == ToOrdinal(Strptime(k))

\* the log without the entries whose key is not a calendar date
WithoutUnparsable(log) == [k \in ValidKeys(log) |-> log[k]]

\* the calendar days that have a sober entry
SoberDays(log) == {Ord(k) : k \in {x \in ValidKeys(log) : Sober(log, x)}}

\* the length of the longest run of consecutive sober calendar days
LongestRun(log) ==
    LET days == SoberDays(log)
        runs == {n \in 0..Cardinality(days) :
                   n = 0 \/ \E o \in days : \A i \in 0..(n - 1) : (o + i) \in days}
    IN CHOOSE n \in runs : \A m \in runs : m <= n

\* chronological order of the valid keys (str order among keys of one day)
DateLess(a, b) == Ord(a) < Ord(b) \/ (Ord(a) = Ord(b) /\ LexLess(a, b))

RECURSIVE ChronoSorted(_)
ChronoSorted(S) ==
    IF S = {} THEN << >>
    ELSE LET m == CHOOSE x \in S : \A y \in S \ {x} : DateLess(x, y)
         IN <<m>> \o ChronoSorted(S \ {m})

\* the number of sober entries at the end of a sequence of keys
RECURSIVE TrailingSober(_, _)
TrailingSober(log, dates) ==
    IF dates = << >> \/ ~Sober(log, dates[Len(dates)]) THEN 0
    ELSE 1 + TrailingSober(log, SubSeq(dates, 1, Len(dates) - 1))

\* the valid-date drinking entries, all of them or those of one month
Drinking(log) == {k \in ValidKeys(log) : ~Sober(log, k)}

DrinkingIn(log, year, month) ==
    {k \in Drinking(log) :
       Strptime(k).year = year /\ Strptime(k).month = month}

\* the effective spend as the rule states it; an entry is covered by the rule
\* when its amount is absent, not a number, zero or positive
Covered(record) ==
    LET has == "amount_spent" \in DOMAIN record
    IN ~has \/ FloatRaises(record.amount_spent) \/ record.amount_spent.num >= 0

RuleSpend(record) ==
    IF "amount_spent" \notin DOMAIN record THEN DEFAULT_AMOUNT
    ELSE IF "num" \notin DOMAIN record.amount_spent THEN DEFAULT_AMOUNT
    ELSE IF record.amount_spent.num > 0 THEN record.amount_spent.num
    ELSE DEFAULT_AMOUNT

RECURSIVE RuleSum(_, _)
RuleSum(log, keys) ==
    IF keys = {} THEN 0
    ELSE LET k == CHOOSE x \in keys : TRUE
         IN RuleSpend(log[k]) + RuleSum(log, keys \ {k})

MonthOf(k) == StrfYm(Strptime(k))

YearOf(k) == StrfY(Strptime(k))

RECURSIVE SumSpent(_, _)
SumSpent(monthly, keys) ==
    IF keys = {} THEN 0
    ELSE LET k == CHOOSE x \in keys : TRUE
         IN monthly[k].spent + SumSpent(monthly, keys \ {k})

RECURSIVE SumField(_, _, _)
SumField(buckets, keys, field) ==
    IF keys = {} THEN 0
    ELSE LET k == CHOOSE x \in keys : TRUE
         IN buckets[k][field] + SumField(buckets, keys \ {k}, field)

HasStats == op \in {"get_statistics", "print_statistics"}

HasAddStats == op \in {"get_additional_stats", "print_statistics"}

(***************************************************************************)
(* C1: an entry whose key is not a YYYY-MM-DD calendar date contributes to *)
(* no aggregate: get_statistics, get_additional_stats and the spending     *)
(* totals return what they return for the log without that entry.          *)
(***************************************************************************)
C1_UnparsableExcluded ==
    LET clean == WithoutUnparsable(daily_log)
    IN /\ HasStats => ret.stats = get_statistics(clean)
       /\ HasAddStats => ret.add_stats = get_additional_stats(clean)
       /\ op = "print_statistics" => ret.spending = Spending(clean, ret.now)

(***************************************************************************)
(* C2: longest_streak is the length of the longest run of consecutive      *)
(* calendar dates that are all present in the log and marked sober (0 when *)
(* no entry is sober), the entries being walked in chronological order.    *)
(***************************************************************************)
C2_LongestStreakIsLongestRun ==
    HasAddStats => ret.add_stats.longest_streak = LongestRun(daily_log)

(***************************************************************************)
(* C3: current_streak is the number of sober entries at the end of the     *)
(* date-sorted sequence of the successfully parsed entries, counted back   *)
(* from the most recent one to the first non-sober entry, gaps ignored.    *)
(***************************************************************************)
C3_CurrentStreakIsTrailingRun ==
    HasAddStats =>
        ret.add_stats.current_streak =
            TrailingSober(daily_log, ChronoSorted(ValidKeys(daily_log)))

(***************************************************************************)
(* C4: for a drinking entry the effective spend that enters the monthly    *)
(* "spent" bucket and the overall and current-month totals is the default  *)
(* amount when amount_spent is absent, not a number or exactly 0, and X    *)
(* itself when it is X > 0; sober entries contribute no spend.             *)
(***************************************************************************)
C4_EffectiveSpend ==
    LET log == daily_log
        covered(keys) == \A k \in keys : Covered(log[k])
    IN /\ HasStats =>
            \A mk \in DOMAIN ret.stats.monthly :
                LET keys == {k \in Drinking(log) : MonthOf(k) = mk}
                IN covered(keys) =>
                       ret.stats.monthly[mk].spent = RuleSum(log, keys)
       /\ (op = "print_statistics" /\ covered(Drinking(log))) =>
            /\ ret.spending.overall_spending = RuleSum(log, Drinking(log))
            /\ ret.spending.current_month_spending =
                   RuleSum(log, DrinkingIn(log, ret.now.year, ret.now.month))

\* Scenario B with a sober day and an amount that is not a number beside it:
\* a zero amount counted as 40 and an amount of 15 counted as 15.
C4_Witness ==
    /\ op = "print_statistics"
    /\ \E a, b \in Drinking(daily_log) :
          /\ Get(daily_log[a], "amount_spent", Str) = Num(0)
          /\ Get(daily_log[b], "amount_spent", Str) = Num(15)
          /\ MonthOf(a) = MonthOf(b)
          /\ ret.stats.monthly[MonthOf(a)].spent >= 55
    /\ ret.spending.overall_spending >= 55

(***************************************************************************)
(* C5: overall spending is the sum of the effective spend over the         *)
(* drinking entries of the log and equals the sum of "spent" over the      *)
(* monthly buckets; current-period spending is that sum over the entries   *)
(* of the reference month and equals that month's bucket (0 without a      *)
(* bucket); hence current-period <= overall.                               *)
(***************************************************************************)
C5_SpendingTotals ==
    op = "print_statistics" =>
        LET monthly == ret.stats.monthly
            mk == StrfYm(ret.now)
        IN /\ ret.spending.overall_spending = SumSpent(monthly, DOMAIN monthly)
           /\ ret.spending.current_month_spending =
                  (IF mk \in DOMAIN monthly THEN monthly[mk].spent ELSE 0)
           /\ ret.spending.current_month_spending
                  <= ret.spending.overall_spending
           /\ (\A k \in Drinking(daily_log) : Covered(daily_log[k])) =>
                  ret.spending.overall_spending
                      = RuleSum(daily_log, Drinking(daily_log))

(***************************************************************************)
(* C6: every monthly and yearly bucket of get_statistics has total_days =  *)
(* the number of valid-date entries of its period and sober_days = the     *)
(* number of those marked sober, so 1 <= total_days, 0 <= sober_days <=    *)
(* total_days and percent-sober in [0, 100]; a bucket exists exactly when  *)
(* a valid-date entry falls in its period; a year's counts are the sums    *)
(* over its months.                                                        *)
(***************************************************************************)
C6_Buckets ==
    HasStats =>
        LET log == daily_log
            monthly == ret.stats.monthly
            yearly == ret.stats.yearly
            good(b, keys) ==
                /\ b.total_days = Cardinality(keys)
                /\ b.sober_days = Cardinality({k \in keys : Sober(log, k)})
                /\ 1 <= b.total_days
                /\ 0 <= b.sober_days /\ b.sober_days <= b.total_days
                /\ Percent(b.sober_days, b.total_days) \in 0..100
        IN /\ DOMAIN monthly = {MonthOf(k) : k \in ValidKeys(log)}
           /\ DOMAIN yearly = {YearOf(k) : k \in ValidKeys(log)}
           /\ \A mk \in DOMAIN monthly :
                  good(monthly[mk], {k \in ValidKeys(log) : MonthOf(k) = mk})
           /\ \A yk \in DOMAIN yearly :
                  LET months == {mk \in DOMAIN monthly : SubSeq(mk, 1, 4) = yk}
                  IN /\ good(yearly[yk],
                             {k \in ValidKeys(log) : YearOf(k) = yk})
                     /\ yearly[yk].total_days
                            = SumField(monthly, months, "total_days")
                     /\ yearly[yk].sober_days
                            = SumField(monthly, months, "sober_days")

\* a year of two months, three valid days, sober and drinking days among them,
\* beside an entry whose key is no date
C6_Witness ==
    /\ op = "get_statistics"
    /\ DOMAIN daily_log # ValidKeys(daily_log)
    /\ \E yk \in DOMAIN ret.stats.yearly :
          /\ ret.stats.yearly[yk].total_days = 2
          /\ ret.stats.yearly[yk].sober_days = 1
          /\ Cardinality({mk \in DOMAIN ret.stats.monthly :
                            SubSeq(mk, 1, 4) = yk}) = 2

(***************************************************************************)
(* C7: after any sequence of log_entry operations from an empty log, the   *)
(* log holds at most one entry per calendar date: no two keys of the log   *)
(* denote the same calendar day.                                           *)
(***************************************************************************)
C7_OneEntryPerDay ==
    \A a, b \in ValidKeys(daily_log) : Ord(a) = Ord(b) => a = b

C9_CalendarMatchesBucket ==
    op = "display_calendar" =>
        LET monthly == get_statistics(file_log).monthly
            mk == StrfYm(Date(ret.ref[1], ret.ref[2], 1))
        IN /\ ret.cal.no_data <=> mk \notin DOMAIN monthly
           /\ mk \in DOMAIN monthly =>
                 /\ ret.cal.total = monthly[mk].total_days
                 /\ ret.cal.sober = monthly[mk].sober_days
                 /\ ret.cal.spent = monthly[mk].spent
                 /\ ret.cal.percent =
                        Percent(monthly[mk].sober_days, monthly[mk].total_days)

\* a month shown with a sober day, a drinking day of zero amount (counted as
\* the default) and a day of another month in the log
C9_Witness ==
    /\ op = "display_calendar"
    /\ ret.cal.total >= 2
    /\ ret.cal.sober >= 1
    /\ ret.cal.spent = CalendarDefault
    /\ \E k \in DrinkingIn(file_log, ret.ref[1], ret.ref[2]) :
          Get(file_log[k], "amount_spent", Str) = Num(0)
    /\ Cardinality(ValidKeys(file_log)) > ret.cal.total

(***************************************************************************)
(* C10: for the empty log get_additional_stats returns total_days = 0,     *)
(* percent_sober = 0, longest_streak = 0 and current_streak = 0,           *)
(* get_statistics returns empty monthly and yearly maps and the spending   *)
(* totals are 0; for every log both streaks are >= 0.                      *)
(***************************************************************************)
C10_EmptyLog ==
    /\ (HasAddStats /\ daily_log = << >>) =>
          /\ ret.add_stats.total_days = 0
          /\ ret.add_stats.percent_sober = 0
          /\ ret.add_stats.longest_streak = 0
          /\ ret.add_stats.current_streak = 0
    /\ (HasStats /\ daily_log = << >>) =>
          /\ DOMAIN ret.stats.monthly = {}
          /\ DOMAIN ret.stats.yearly = {}
    /\ (op = "print_statistics" /\ daily_log = << >>) =>
          /\ ret.spending.overall_spending = 0
          /\ ret.spending.current_month_spending = 0
    /\ HasAddStats =>
          /\ ret.add_stats.longest_streak >= 0
          /\ ret.add_stats.current_streak >= 0

\* all the statistics printed for the empty log
C10_Witness ==
    /\ op = "print_statistics"
    /\ daily_log = << >>

(***************************************************************************)
(* C11: the summary ExcelReport.generate computes (total, sober and        *)
(* drinking days, percent sober, longest and current streak, overall       *)
(* spending) equals the aggregates the tracker computes on the same log,   *)
(* and the report is produced rather than aborted, for every log.          *)
(***************************************************************************)
C11_ReportMatchesTracker ==
    op = "export_report" =>
        LET add == get_additional_stats(data_log)
            spend == Spending(data_log, NoDate)
        IN /\ ~ret.report.raised
           /\ ret.report.total_days = add.total_days
           /\ ret.report.sober_days = SoberCount(data_log)
           /\ ret.report.drinking_days = add.total_days - SoberCount(data_log)
           /\ ret.report.percent_sober = add.percent_sober
           /\ ret.report.longest_streak = add.longest_streak
           /\ ret.report.current_streak = add.current_streak
           /\ ret.report.overall_spending = spend.overall_spending

(***************************************************************************)
(* C12: in one session, an export builds its rows and summary from a log   *)
(* that contains every entry added so far: the log ExcelReport sees is the *)
(* tracker's in-memory log at the moment of the export.                    *)
(***************************************************************************)
C12_ExportSeesCurrentLog ==
    op = "export_report" => ret.report = generate(daily_log)

(***************************************************************************)
(* C13: log_entry called with a non-empty date string that does not parse  *)
(* as YYYY-MM-DD leaves the in-memory log and the persisted data unchanged *)
(* (no entry, no save); hence, from an empty log, every key of the log     *)
(* parses as a calendar date after any sequence of log_entry calls.        *)
(***************************************************************************)
C13_BadDateRejected ==
    /\ [][(op' = "log_entry" /\ ~Strptime(ret'.date_str).ok) =>
              /\ daily_log' = daily_log
              /\ file_log' = file_log
              /\ save_failures' = save_failures]_vars
    /\ [](\A k \in DOMAIN daily_log : Strptime(k).ok)

\* "2024-02-30" or "not-a-date" was just refused while the log holds entries
C13_Witness ==
    /\ op = "log_entry"
    /\ ret.date_str \in {K_20240230, K_notadate}
    /\ Cardinality(DOMAIN daily_log) = MaxLogSize
    /\ file_log = daily_log

(***************************************************************************)
(* C14: after every log_entry call that accepts its date the persisted     *)
(* daily_log equals the tracker's in-memory daily_log, so the calendar     *)
(* view (which reads the file) and the statistics view (which reads the    *)
(* memory) work on the same entries, also when a save attempt fails.       *)
(***************************************************************************)
C14_FileMatchesMemory == file_log = daily_log

====
